---- MODULE Spec2Model ----
(***************************************************************************)
(* Model of errors.go: the ValidationError tree, the context operations    *)
(* add / addContext / finishSchemaContext / finishInstanceContext, the     *)
(* pointer helpers joinPtr / absPtr and the renderings Error / GoString.   *)
(*                                                                         *)
(* A Go string is modelled as a sequence of one-character strings, so that *)
(* "starts with #", "contains a separator" and line splitting are computed *)
(* on the characters.  The heap of *ValidationError values is a sequence   *)
(* of records; a pointer is an index into it.                              *)
(***************************************************************************)
EXTENDS Naturals, Sequences, FiniteSets

\* heap: the ValidationError values allocated so far (a pointer is an index)
\* out:  the string returned by the last rendering or pointer call
\* ctl:  the caller's position and the inputs it was started with
VARIABLES heap, out, ctl

vars == <<heap, out, ctl>>

(* ------------------------------ bounds -------------------------------- *)

\* number of ValidationError values ever allocated
MaxNodes == 3

\* longest InstancePtr / SchemaPtr (in characters) the free exploration builds
MaxLen == 3

(* ------------------------------ strings ------------------------------- *)

NL == "\n"

\* instance-side fragments handed to addContext
InstFrags == { <<>>, <<"a">> }

\* schema-side fragments handed to validationError and addContext
SchemaFrags == { <<>>, <<"s">> }

\* results of fmt.Sprintf(format, a...): one-line messages and a two-line one
Messages == { <<"m">>, <<"n">>, <<"m", NL, "n">> }

\* the schemas handed to finishSchemaContext: their URL and Ptr
Schemas == { [URL |-> <<"A">>, Ptr |-> <<"#">>],
             [URL |-> <<"B">>, Ptr |-> <<"#">>] }

(* ------------------------------ pointers ------------------------------ *)

\* joinPtr without the test on ptr2
joinPtrNoSuffixCase(ptr1, ptr2) ==
    IF Len(ptr1) = 0 THEN ptr2
    ELSE ptr1 \o <<"/">> \o ptr2

\* joinPtr with its operands swapped in the concatenation
joinPtrSwapped(ptr1, ptr2) ==
    IF Len(ptr1) = 0 THEN ptr2
    ELSE IF Len(ptr2) = 0 THEN ptr1
    ELSE ptr2 \o <<"/">> \o ptr1

joinPtr(ptr1, ptr2) ==
    IF Len(ptr1) = 0 THEN ptr2
    ELSE IF Len(ptr2) = 0 THEN ptr1
    ELSE ptr1 \o <<"/">> \o ptr2

\* absPtr without its empty-path case
absPtrNoEmptyCase(ptr) ==
    IF ptr = <<>> THEN ptr
    ELSE IF ptr[1] # "#" THEN <<"#", "/">> \o ptr
    ELSE ptr

absPtr(ptr) ==
    IF ptr = <<>> THEN <<"#">>
    ELSE IF ptr[1] # "#" THEN <<"#", "/">> \o ptr
    ELSE ptr

(* ------------------------------ the tree ------------------------------ *)

\* &ValidationError{fmt.Sprintf(format, a...), "", "", schemaPtr, nil}
\* validationError that drops its schemaPtr argument
validationErrorNoPtr(schemaPtr, msg) ==
    [Message |-> msg, InstancePtr |-> <<>>, SchemaURL |-> <<>>,
     SchemaPtr |-> <<>>, Causes |-> <<>>]

\* validationError with the two path fields of the literal exchanged
validationErrorSwapped(schemaPtr, msg) ==
    [Message |-> msg, InstancePtr |-> schemaPtr, SchemaURL |-> <<>>,
     SchemaPtr |-> <<>>, Causes |-> <<>>]

validationErrorF(schemaPtr, msg) ==
    [Message |-> msg, InstancePtr |-> <<>>, SchemaURL |-> <<>>,
     SchemaPtr |-> schemaPtr, Causes |-> <<>>]

RECURSIVE addContext(_, _, _, _)
RECURSIVE addContextCauses(_, _, _, _)

\* addContext without the test on SchemaURL
addContextNoURLTest(h, instancePtr, schemaPtr, ve) ==
    LET h1 == [h EXCEPT ![ve].InstancePtr = joinPtr(instancePtr, @),
                        ![ve].SchemaPtr = joinPtr(schemaPtr, @)]
    IN  addContextCauses(h1, instancePtr, schemaPtr, h1[ve].Causes)

\* the body of addContext on the node ve, then the loop over its causes
addContext(h, instancePtr, schemaPtr, ve) ==
    LET h1 == [h EXCEPT ![ve].InstancePtr = joinPtr(instancePtr, @)]
        h2 == IF h1[ve].SchemaURL = <<>>
              THEN [h1 EXCEPT ![ve].SchemaPtr = joinPtr(schemaPtr, @)]
              ELSE h1
    IN  addContextCauses(h2, instancePtr, schemaPtr, h2[ve].Causes)

addContextCauses(h, instancePtr, schemaPtr, causes) ==
    IF causes = <<>> THEN h
    ELSE addContextCauses(addContext(h, instancePtr, schemaPtr, Head(causes)),
                          instancePtr, schemaPtr, Tail(causes))

RECURSIVE finishSchemaContext(_, _, _)
RECURSIVE finishSchemaCauses(_, _, _)

\* finishSchemaContext that sets the node and forgets the loop over its causes
finishSchemaContextShallow(h, ve, s) ==
    IF Len(h[ve].SchemaURL) = 0
    THEN [h EXCEPT ![ve].SchemaURL = s.URL,
                   ![ve].SchemaPtr = joinPtr(s.Ptr, @)]
    ELSE h

\* finishSchemaContext without the test on SchemaURL: the last writer wins
finishSchemaContextOverwrite(h, ve, s) ==
    LET h1 == [h EXCEPT ![ve].SchemaURL = s.URL,
                        ![ve].SchemaPtr = joinPtr(s.Ptr, @)]
    IN  finishSchemaCauses(h1, h1[ve].Causes, s)

\* finishSchemaContext with the loop over the causes outside the test
finishSchemaContextDescend(h, ve, s) ==
    LET h1 == IF Len(h[ve].SchemaURL) = 0
              THEN [h EXCEPT ![ve].SchemaURL = s.URL,
                             ![ve].SchemaPtr = joinPtr(s.Ptr, @)]
              ELSE h
    IN  finishSchemaCauses(h1, h1[ve].Causes, s)

finishSchemaContext(h, ve, s) ==
    IF Len(h[ve].SchemaURL) = 0
    THEN LET h1 == [h EXCEPT ![ve].SchemaURL = s.URL,
                             ![ve].SchemaPtr = joinPtr(s.Ptr, @)]
         IN  finishSchemaCauses(h1, h1[ve].Causes, s)
    ELSE h

finishSchemaCauses(h, causes, s) ==
    IF causes = <<>> THEN h
    ELSE finishSchemaCauses(finishSchemaContext(h, Head(causes), s),
                            Tail(causes), s)

RECURSIVE finishInstanceContext(_, _)
RECURSIVE finishInstanceCauses(_, _)

finishInstanceContext(h, ve) ==
    LET h1 == [h EXCEPT ![ve].InstancePtr = absPtr(@)]
    IN  finishInstanceCauses(h1, h1[ve].Causes)

finishInstanceCauses(h, causes) ==
    IF causes = <<>> THEN h
    ELSE finishInstanceCauses(finishInstanceContext(h, Head(causes)),
                              Tail(causes))

RECURSIVE add(_, _, _)

\* ve.add(causes...): each cause gets ve's paths, then is appended
add(h, ve, causes) ==
    IF causes = <<>> THEN h
    ELSE LET cause == Head(causes)
             h1 == addContext(h, h[ve].InstancePtr, h[ve].SchemaPtr, cause)
             h2 == [h1 EXCEPT ![ve].Causes = Append(@, cause)]
         IN  add(h2, ve, Tail(causes))

(* ------------------------------ rendering ----------------------------- *)

\* fmt.Sprintf("I[%s] S[%s] %s", ve.InstancePtr, ve.SchemaPtr, ve.Message)
Error(h, ve) ==
    <<"I", "[">> \o h[ve].InstancePtr \o <<"]", " ", "S", "[">>
        \o h[ve].SchemaPtr \o <<"]", " ">> \o h[ve].Message

RECURSIVE SplitFrom(_, _, _)

\* strings.Split(s, "\n"), scanning s with the current line in cur
SplitFrom(s, cur, acc) ==
    IF s = <<>> THEN Append(acc, cur)
    ELSE IF Head(s) = NL THEN SplitFrom(Tail(s), <<>>, Append(acc, cur))
    ELSE SplitFrom(Tail(s), Append(cur, Head(s)), acc)

Split(s) == SplitFrom(s, <<>>, <<>>)

RECURSIVE GoString(_, _)
RECURSIVE GoStringCauses(_, _, _)
RECURSIVE GoStringLines(_, _)

\* the inner loop with a one-space indent
GoStringLinesOneSpace(msg, lines) ==
    IF lines = <<>> THEN msg
    ELSE GoStringLines(msg \o <<NL, " ">> \o Head(lines), Tail(lines))

\* the inner loop: msg += "\n  " + line
GoStringLines(msg, lines) ==
    IF lines = <<>> THEN msg
    ELSE GoStringLines(msg \o <<NL, " ", " ">> \o Head(lines), Tail(lines))

\* the outer loop over ve.Causes
GoStringCauses(h, msg, causes) ==
    IF causes = <<>> THEN msg
    ELSE GoStringCauses(h,
             GoStringLines(msg, Split(GoString(h, Head(causes)))),
             Tail(causes))

GoString(h, ve) == GoStringCauses(h, Error(h, ve), h[ve].Causes)

(* ------------------------------ tree shape ---------------------------- *)

Nodes(h) == DOMAIN h

Range(s) == { s[i] : i \in DOMAIN s }

RECURSIVE Subtree(_, _)

\* ve and everything reachable from it through Causes
Subtree(h, ve) ==
    {ve} \cup UNION { Subtree(h, c) : c \in Range(h[ve].Causes) }

\* the nodes that are nobody's cause yet: the errors a caller still holds
Roots(h) == { n \in Nodes(h) : \A p \in Nodes(h) : n \notin Range(h[p].Causes) }

MaxPtr(h) ==
    \A n \in Nodes(h) : Len(h[n].InstancePtr) <= MaxLen
                        /\ Len(h[n].SchemaPtr) <= MaxLen

(* ---------------- free use of the operations by a validator ----------- *)

Free == [step |-> "free"]

\* the cause lists a caller passes to add: one or two errors it still holds,
\* none of them the tree that ve itself is part of
CauseLists(ve) ==
    LET free == { c \in Roots(heap) : ve \notin Subtree(heap, c) }
    IN  { <<c>> : c \in free }
        \cup { <<p[1], p[2]>> : p \in { q \in free \X free : q[1] # q[2] } }

\* the message plays no part in the context operations: one value is drawn
NewError ==
    /\ Len(heap) < MaxNodes
    /\ \E schemaPtr \in SchemaFrags :
           heap' = Append(heap, validationErrorF(schemaPtr, <<"m">>))
    /\ UNCHANGED <<out, ctl>>

Add ==
    /\ \E ve \in Nodes(heap) : \E causes \in CauseLists(ve) :
           heap' = add(heap, ve, causes)
    /\ MaxPtr(heap')
    /\ UNCHANGED <<out, ctl>>

AddContext ==
    /\ \E err \in Roots(heap), instancePtr \in InstFrags, schemaPtr \in SchemaFrags :
           heap' = addContext(heap, instancePtr, schemaPtr, err)
    /\ MaxPtr(heap')
    /\ UNCHANGED <<out, ctl>>

FinishSchemaContext ==
    /\ \E err \in Roots(heap), s \in Schemas :
           heap' = finishSchemaContext(heap, err, s)
    /\ MaxPtr(heap')
    /\ UNCHANGED <<out, ctl>>

FinishInstanceContext ==
    /\ \E err \in Roots(heap) : heap' = finishInstanceContext(heap, err)
    /\ MaxPtr(heap')
    /\ UNCHANGED <<out, ctl>>

Init ==
    /\ heap = <<>>
    /\ out = <<>>
    /\ ctl = Free

Next ==
    \/ NewError
    \/ Add
    \/ AddContext
    \/ FinishSchemaContext
    \/ FinishInstanceContext

Spec == Init /\ [][Next]_vars

(* ---------------- joinPtr on drawn operands --------------------------- *)

\* longest operand (in characters) drawn for joinPtr
MaxPathLen == 2

PathChars == { "a", "/", "#" }

RECURSIVE PathsUpTo(_)

PathsUpTo(n) ==
    IF n = 0 THEN { <<>> }
    ELSE LET shorter == PathsUpTo(n - 1)
         IN  shorter \cup { Append(p, c) : p \in shorter, c \in PathChars }

PtrInit ==
    /\ heap = <<>>
    /\ out = <<>>
    /\ \E ptr1 \in PathsUpTo(MaxPathLen), ptr2 \in PathsUpTo(MaxPathLen) :
           ctl = [step |-> "join", ptr1 |-> ptr1, ptr2 |-> ptr2]

Join ==
    /\ ctl.step = "join"
    /\ out' = joinPtr(ctl.ptr1, ctl.ptr2)
    /\ ctl' = [ctl EXCEPT !.step = "joined"]
    /\ UNCHANGED heap

Abs ==
    /\ ctl.step = "joined"
    /\ out' = absPtr(out)
    /\ ctl' = [ctl EXCEPT !.step = "absolute"]
    /\ UNCHANGED heap

PtrNext == Join \/ Abs

PtrSpec == PtrInit /\ [][PtrNext]_vars

(* ---------------- nested attachment, innermost first ------------------ *)

\* deepest nesting of addContext calls around one tree
MaxDepth == 3

AttachFrags == { <<>>, <<"a">>, <<"b">> }

Node(instancePtr, causes) ==
    [validationErrorF(<<"s">>, <<"m">>)
         EXCEPT !.InstancePtr = instancePtr, !.Causes = causes]

\* a leaf, or a parent with one cause, with paths left by earlier attachments
AttachTrees ==
    LET ptrs == { <<>>, <<"c">> }
    IN  { << Node(x, <<>>) >> : x \in ptrs }
        \cup { << Node(x, <<2>>), Node(y, <<>>) >> : x \in ptrs, y \in ptrs }

RECURSIVE FragLists(_)

\* the fragments of n nested calls, outermost first
FragLists(n) ==
    IF n = 0 THEN { <<>> }
    ELSE { <<f>> \o fs : f \in AttachFrags, fs \in FragLists(n - 1) }

AttachInit ==
    /\ out = <<>>
    /\ \E h \in AttachTrees :
       \E n \in 2 .. MaxDepth :
       \E fs \in FragLists(n) :
           /\ heap = h
           /\ ctl = [step |-> "attach", todo |-> fs, frags |-> fs, h0 |-> h]

\* the innermost pending caller attaches its fragment to the tree it got back
Attach ==
    /\ ctl.step = "attach"
    /\ \E schemaPtr \in SchemaFrags :
           heap' = addContext(heap, ctl.todo[Len(ctl.todo)], schemaPtr, 1)
    /\ ctl' = [ctl EXCEPT !.todo = SubSeq(@, 1, Len(@) - 1),
                          !.step = IF Len(ctl.todo) = 1 THEN "done" ELSE "attach"]
    /\ UNCHANGED out

AttachNext == Attach

AttachSpec == AttachInit /\ [][AttachNext]_vars

(* ---------------- rendering of drawn trees ---------------------------- *)

RenderNode(instancePtr, msg, causes) ==
    [Message |-> msg, InstancePtr |-> instancePtr, SchemaURL |-> <<"A">>,
     SchemaPtr |-> <<"#", "/", "s">>, Causes |-> causes]

\* finished trees: a leaf, a parent with two causes (added in either order of
\* allocation), a chain of three
RenderTrees ==
    LET ptrs == { <<"#">>, <<"#", "/", "a">> }
        one(cs) == { RenderNode(p, m, cs) : p \in ptrs, m \in Messages }
    IN  { <<a>> : a \in one(<<>>) }
        \cup { <<a, b, c>> : a \in one(<<2, 3>>), b \in one(<<>>), c \in one(<<>>) }
        \cup { <<a, b, c>> : a \in one(<<3, 2>>), b \in one(<<>>), c \in one(<<>>) }
        \cup { <<a, b, c>> : a \in one(<<2>>), b \in one(<<3>>), c \in one(<<>>) }

RenderInit ==
    /\ out = <<>>
    /\ \E h \in RenderTrees :
           /\ heap = h
           /\ ctl = [step |-> "ready", node |-> 0, h0 |-> h]

Render ==
    /\ ctl.step = "ready"
    /\ \E ve \in Nodes(heap) :
           /\ out' = GoString(heap, ve)
           /\ ctl' = [ctl EXCEPT !.step = "rendered", !.node = ve]
    /\ UNCHANGED heap

RenderNext == Render

RenderSpec == RenderInit /\ [][RenderNext]_vars

(* ---------------- the validator's two end-to-end paths ---------------- *)

Age == <<"a", "g", "e">>
Addr == <<"a", "d", "d", "r">>
Type == <<"t", "y", "p", "e">>
Required == <<"r", "e", "q", "u", "i", "r", "e", "d">>
Properties == <<"p", "r", "o", "p", "e", "r", "t", "i", "e", "s">>
Ref == <<"$", "r", "e", "f">>
DefsJson == <<"d", "e", "f", "s", ".", "j", "s", "o", "n">>
RootJson == <<"r", "o", "o", "t", ".", "j", "s", "o", "n">>
MainJson == <<"m", "a", "i", "n", ".", "j", "s", "o", "n">>

\* a compiled document's root schema: Ptr is "#"
DocSchema(url) == [URL |-> url, Ptr |-> <<"#">>]

ScenInit ==
    /\ heap = <<>>
    /\ out = <<>>
    /\ \E kind \in { "noref", "ref" }, prop \in { Age, Addr },
          kw \in { Type, Required }, url \in { RootJson, MainJson },
          msg \in { <<"m">>, <<"n">> } :
           ctl = [step |-> "start", kind |-> kind, prop |-> prop, kw |-> kw,
                  root |-> DocSchema(url), msg |-> msg]

\* the keyword check fails: validationError(kw, msg)
ScenFail ==
    /\ ctl.step = "start"
    /\ heap' = Append(heap, validationErrorF(ctl.kw, ctl.msg))
    /\ ctl' = [ctl EXCEPT !.step = "created"]
    /\ UNCHANGED out

\* the referenced schema's validate returns: finishSchemaContext(err, s.Ref)
ScenFinishRef ==
    /\ ctl.step = "created" /\ ctl.kind = "ref"
    /\ heap' = finishSchemaContext(heap, 1, DocSchema(DefsJson))
    /\ ctl' = [ctl EXCEPT !.step = "refFinished"]
    /\ UNCHANGED out

\* the referencing schema reports it: validationError("$ref", msg).add(err)
ScenRefError ==
    /\ ctl.step = "refFinished"
    /\ heap' = Append(heap, validationErrorF(Ref, ctl.msg))
    /\ ctl' = [ctl EXCEPT !.step = "refCreated"]
    /\ UNCHANGED out

ScenAdd ==
    /\ ctl.step = "refCreated"
    /\ heap' = add(heap, 2, <<1>>)
    /\ ctl' = [ctl EXCEPT !.step = "added"]
    /\ UNCHANGED out

\* the error the property's schema returned to the object's schema
ScenTop == Len(heap)

\* the object's schema attaches the property: addContext(prop, "properties/"+prop, err)
ScenAttach ==
    /\ \/ ctl.step = "created" /\ ctl.kind = "noref"
       \/ ctl.step = "added"
    /\ heap' = addContext(heap, ctl.prop,
                          Properties \o <<"/">> \o ctl.prop, ScenTop)
    /\ ctl' = [ctl EXCEPT !.step = "attached"]
    /\ UNCHANGED out

\* the root schema's validate returns: finishSchemaContext(err, root)
ScenFinishSchema ==
    /\ ctl.step = "attached"
    /\ heap' = finishSchemaContext(heap, ScenTop, ctl.root)
    /\ ctl' = [ctl EXCEPT !.step = "schemaFinished"]
    /\ UNCHANGED out

\* the entry point returns: finishInstanceContext(err)
ScenFinishInstance ==
    /\ ctl.step = "schemaFinished"
    /\ heap' = finishInstanceContext(heap, ScenTop)
    /\ ctl' = [ctl EXCEPT !.step = "done"]
    /\ UNCHANGED out

ScenNext ==
    \/ ScenFail
    \/ ScenFinishRef
    \/ ScenRefError
    \/ ScenAdd
    \/ ScenAttach
    \/ ScenFinishSchema
    \/ ScenFinishInstance

ScenSpec == ScenInit /\ [][ScenNext]_vars

(* ------------------------------ properties ---------------------------- *)

URLSet(h, n) == h[n].SchemaURL # <<>>

StartsWithRoot(ptr) == ptr # <<>> /\ ptr[1] = "#"

\* no node with a SchemaURL has a node without one below it
SetNodesClosed(h, ve) ==
    \A n \in Subtree(h, ve) :
        URLSet(h, n) => \A m \in Subtree(h, n) : URLSet(h, m)

\* C1 as stated: whenever a step is finishSchemaContext(root, S), every node of
\* root's tree has a non-empty SchemaURL afterwards.
C1_AllSetAfterFinish ==
    [][\A err \in Roots(heap), s \in Schemas :
          heap' = finishSchemaContext(heap, err, s)
              => \A n \in Subtree(heap', err) : URLSet(heap', n)]_vars

\* C1 amended: whenever a step is finishSchemaContext(root, S) with a non-empty
\* S.URL on a tree in which no node with a SchemaURL has a descendant without
\* one, every node of the tree has a non-empty SchemaURL afterwards.
C1_AllSetAfterFinishClosed ==
    [][\A err \in Roots(heap), s \in Schemas :
          (/\ s.URL # <<>>
           /\ SetNodesClosed(heap, err)
           /\ heap' = finishSchemaContext(heap, err, s))
              => \A n \in Subtree(heap', err) : URLSet(heap', n)]_vars

\* a finished tree whose root took the URL of the outer call, with one cause
\* that kept the URL B it had and one cause that took the root's URL A
C1_Witness ==
    \E err \in Roots(heap) :
        /\ Len(heap[err].Causes) = 2
        /\ heap[err].SchemaURL = <<"A">>
        /\ heap[heap[err].Causes[1]].SchemaURL = <<"B">>
        /\ heap[heap[err].Causes[2]].SchemaURL = <<"A">>
        /\ heap[heap[err].Causes[2]].SchemaPtr = <<"#", "/", "s">>

\* C2: a node whose SchemaURL is set keeps its SchemaURL and its SchemaPtr in
\* every later step (add, addContext, finishSchemaContext, finishInstanceContext).
C2_FirstWriterWins ==
    [][\A n \in Nodes(heap) :
          URLSet(heap, n) => /\ heap'[n].SchemaURL = heap[n].SchemaURL
                             /\ heap'[n].SchemaPtr = heap[n].SchemaPtr]_vars

\* a cause finished against B, then added, attached under "a" with schema
\* prefix "s", passed through the root's finish against A and made absolute
C2_Witness ==
    \E err \in Roots(heap) : \E c \in Range(heap[err].Causes) :
        /\ heap[c].SchemaURL = <<"B">> /\ heap[c].SchemaPtr = <<"#">>
        /\ heap[err].SchemaURL = <<"A">>
        /\ heap[err].SchemaPtr = <<"#", "/", "s">>
        /\ heap[c].InstancePtr = <<"#", "/", "a">>

\* C5: whenever a step is finishInstanceContext(root), every node of root's
\* tree has an InstancePtr starting with "#" afterwards, and a node whose path
\* was empty has exactly "#".
C5_AllAbsoluteAfterFinish ==
    [][\A err \in Roots(heap) :
          heap' = finishInstanceContext(heap, err)
              => \A n \in Subtree(heap', err) :
                     /\ StartsWithRoot(heap'[n].InstancePtr)
                     /\ heap[n].InstancePtr = <<>>
                            => heap'[n].InstancePtr = <<"#">>]_vars

\* a tree whose root had the empty path and whose cause had a relative one,
\* after finishInstanceContext
C5_Witness ==
    \E err \in Roots(heap) : \E c \in Range(heap[err].Causes) :
        /\ heap[err].InstancePtr = <<"#">>
        /\ heap[c].InstancePtr = <<"#", "/", "a">>
        /\ heap[c].SchemaURL = <<>>

\* C10: whenever a step is finishSchemaContext(root, S), every node at or below
\* a node whose SchemaURL was already set is left as it was (SchemaURL unset
\* included); whenever a step is addContext(ip, sp, root), every node of the
\* tree gets ip joined in front of its InstancePtr.
C10_ShortCircuit ==
    [][/\ \A err \in Roots(heap), s \in Schemas :
              heap' = finishSchemaContext(heap, err, s)
                  => \A n \in Subtree(heap, err) :
                         URLSet(heap, n)
                             => \A m \in Subtree(heap, n) : heap'[m] = heap[m]
       /\ \A err \in Roots(heap), ip \in InstFrags, sp \in SchemaFrags :
              heap' = addContext(heap, ip, sp, err)
                  => \A m \in Subtree(heap, err) :
                         heap'[m].InstancePtr = joinPtr(ip, heap[m].InstancePtr)]_vars

\* a chain of three: the root finished against A, its cause finished earlier
\* against B, the cause's own cause still without SchemaURL, and the prefix
\* "a" on all three
C10_Witness ==
    \E err \in Roots(heap) : \E c \in Range(heap[err].Causes) :
        \E g \in Range(heap[c].Causes) :
            /\ heap[err].SchemaURL = <<"A">>
            /\ heap[c].SchemaURL = <<"B">>
            /\ ~URLSet(heap, g)
            /\ \A n \in {err, c, g} : heap[n].InstancePtr = <<"a">>

\* the scenario's failing node: the first error allocated
Leaf == heap[1]

\* C3: in the reference-crossing path with property "addr" and the failure at
\* "required" inside defs.json, the failure ends with InstancePtr "#/addr",
\* SchemaURL "defs.json" and SchemaPtr "#/required", and not the root's URL.
C3_RefScenario ==
    (ctl.step = "done" /\ ctl.kind = "ref" /\ ctl.prop = Addr /\ ctl.kw = Required)
        => /\ Leaf.InstancePtr = <<"#", "/">> \o Addr
           /\ Leaf.SchemaURL = DefsJson
           /\ Leaf.SchemaPtr = <<"#", "/">> \o Required
           /\ Leaf.SchemaURL # ctl.root.URL

\* the path has run to its end: the failure hangs under the "$ref" error,
\* which carries the root's URL
C3_Witness ==
    /\ ctl.step = "done" /\ ctl.kind = "ref"
    /\ ctl.prop = Addr /\ ctl.kw = Required
    /\ Len(heap) = 2 /\ heap[2].Causes = <<1>>
    /\ heap[2].SchemaURL = RootJson
    /\ Leaf.SchemaURL = DefsJson

\* C4: in the path without a reference, with property "age" and keyword
\* "type", the failure ends with InstancePtr "#/age", SchemaPtr
\* "#/properties/age/type" and the root schema's URL.
C4_NoRefScenario ==
    (ctl.step = "done" /\ ctl.kind = "noref" /\ ctl.prop = Age /\ ctl.kw = Type)
        => /\ Leaf.InstancePtr = <<"#", "/">> \o Age
           /\ Leaf.SchemaPtr = <<"#", "/">> \o Properties \o <<"/">> \o Age
                                   \o <<"/">> \o Type
           /\ Leaf.SchemaURL = ctl.root.URL

C4_Witness ==
    /\ ctl.step = "done" /\ ctl.kind = "noref"
    /\ ctl.prop = Age /\ ctl.kw = Type
    /\ Len(heap) = 1
    /\ Leaf.SchemaURL = MainJson

\* the fragment the newest error was constructed with
NewestFragment == IF Len(heap) = 2 THEN Ref ELSE ctl.kw

Constructed == ctl.step \in { "created", "refCreated" }

\* C9 as stated: a freshly constructed failure has empty InstancePtr, empty
\* SchemaPtr, empty SchemaURL and no causes.
C9_FreshAllEmpty ==
    Constructed
        => /\ heap[Len(heap)].InstancePtr = <<>>
           /\ heap[Len(heap)].SchemaPtr = <<>>
           /\ heap[Len(heap)].SchemaURL = <<>>
           /\ heap[Len(heap)].Causes = <<>>

\* C9 amended: a freshly constructed failure has empty InstancePtr, empty
\* SchemaURL, no causes, the formatted message, and the given fragment as its
\* SchemaPtr.
C9_FreshHoldsFragment ==
    Constructed
        => /\ heap[Len(heap)].InstancePtr = <<>>
           /\ heap[Len(heap)].SchemaPtr = NewestFragment
           /\ heap[Len(heap)].SchemaURL = <<>>
           /\ heap[Len(heap)].Causes = <<>>
           /\ heap[Len(heap)].Message = ctl.msg

C9_Witness ==
    /\ ctl.step = "created"
    /\ ctl.kw = Required
    /\ Len(heap) = 1
    /\ Leaf.SchemaPtr = Required

RECURSIVE Concat(_)

\* the non-empty fragments of fs, in order, with one "/" between neighbours
Concat(fs) ==
    IF fs = <<>> THEN <<>>
    ELSE LET rest == Concat(Tail(fs))
         IN  IF Head(fs) = <<>> THEN rest
             ELSE IF rest = <<>> THEN Head(fs)
             ELSE Head(fs) \o <<"/">> \o rest

\* C6: after the nested calls have attached their fragments innermost first,
\* every node's InstancePtr is the one a single addContext with
\* joinPtr(p2, p1) gives (two calls), and is the concatenation of all the
\* fragments, outermost first, in front of the path the node had.
C6_AttachComposes ==
    ctl.step = "done"
        => \A n \in Nodes(heap) :
               /\ Len(ctl.frags) = 2
                      => heap[n].InstancePtr =
                             addContext(ctl.h0,
                                        joinPtr(ctl.frags[1], ctl.frags[2]),
                                        <<>>, 1)[n].InstancePtr
               /\ heap[n].InstancePtr
                      = Concat(ctl.frags \o << ctl.h0[n].InstancePtr >>)

\* two attachments, inner "b" then outer "a", around a parent with the empty
\* path and a cause that already had the path "c"
C6_Witness ==
    /\ ctl.step = "done"
    /\ ctl.frags = << <<"a">>, <<"b">> >>
    /\ Len(heap) = 2
    /\ heap[1].InstancePtr = <<"a", "/", "b">>
    /\ heap[2].InstancePtr = <<"a", "/", "b", "/", "c">>

\* C7: joinPtr returns the other operand when one is empty, and for non-empty
\* operands the first, one "/", then the second.
C7_JoinPtr ==
    ctl.step = "joined"
        => LET a == ctl.ptr1
               b == ctl.ptr2
           IN  /\ a = <<>> => out = b
               /\ b = <<>> => out = a
               /\ (a # <<>> /\ b # <<>>)
                      => /\ Len(out) = Len(a) + Len(b) + 1
                         /\ SubSeq(out, 1, Len(a)) = a
                         /\ out[Len(a) + 1] = "/"
                         /\ SubSeq(out, Len(a) + 2, Len(out)) = b

C7_Witness ==
    /\ ctl.step = "joined"
    /\ ctl.ptr1 = <<"#">> /\ ctl.ptr2 = <<"a">>
    /\ out = <<"#", "/", "a">>

Indent(lines) == [i \in DOMAIN lines |-> <<" ", " ">> \o lines[i]]

RECURSIVE TreeLines(_, _)
RECURSIVE CauseLines(_, _)

\* the expected lines: the node's own, then each cause's, two spaces deeper
TreeLines(h, ve) == Split(Error(h, ve)) \o CauseLines(h, h[ve].Causes)

CauseLines(h, causes) ==
    IF causes = <<>> THEN <<>>
    ELSE Indent(TreeLines(h, Head(causes))) \o CauseLines(h, Tail(causes))

TwoLeafCauses(h, ve) ==
    /\ Len(h[ve].Causes) = 2
    /\ \A c \in Range(h[ve].Causes) : h[c].Causes = <<>>

OneLine(s) == \A i \in DOMAIN s : s[i] # NL

NoLineBreaks(h, ve) ==
    \A n \in Subtree(h, ve) :
        OneLine(h[n].Message) /\ OneLine(h[n].InstancePtr) /\ OneLine(h[n].SchemaPtr)

RenderedFirst ==
    /\ SubSeq(out, 1, Len(Error(heap, ctl.node))) = Error(heap, ctl.node)
    /\ Split(out) = TreeLines(heap, ctl.node)
    /\ heap = ctl.h0

ThreeLines ==
    LET ve == ctl.node
    IN  Split(out) = << Error(heap, ve),
                        <<" ", " ">> \o Error(heap, heap[ve].Causes[1]),
                        <<" ", " ">> \o Error(heap, heap[ve].Causes[2]) >>

\* C8 as stated: the rendering is the node's own followed by the causes'
\* renderings in order, each line two spaces deeper, and a parent with two
\* leaf causes renders as exactly three lines.
C8_RenderThreeLinesAlways ==
    ctl.step = "rendered"
        => /\ RenderedFirst
           /\ TwoLeafCauses(heap, ctl.node) => ThreeLines

\* C8 amended: the rendering is the node's own followed by the causes'
\* renderings in order, each line two spaces deeper; a parent with two leaf
\* causes renders as exactly three lines when no Message, InstancePtr or
\* SchemaPtr of the three contains a line break.
C8_RenderThreeLinesOneLineMessages ==
    ctl.step = "rendered"
        => /\ RenderedFirst
           /\ (TwoLeafCauses(heap, ctl.node) /\ NoLineBreaks(heap, ctl.node))
                  => ThreeLines

\* a parent whose causes were added as node 3, then node 2, rendered in three
\* lines
C8_Witness ==
    /\ ctl.step = "rendered"
    /\ ctl.node = 1
    /\ heap[1].Causes = <<3, 2>>
    /\ heap[3].Message = <<"m">> /\ heap[2].Message = <<"n">>
    /\ NoLineBreaks(heap, 1)
    /\ Len(Split(out)) = 3

====
